---- MODULE Spec2Model ----
(***************************************************************************)
(* Model of src/app.py: the Streamlit page that validates a URL, runs the *)
(* yt-dlp extraction/transcode call inside a temporary directory while a  *)
(* progress hook drives the progress bar, classifies a raised failure by  *)
(* its message and resolves the produced file from the directory.         *)
(*                                                                         *)
(* Text (URLs, exception messages, file names, glob patterns) is a        *)
(* sequence of one-character strings, so matching, stripping and          *)
(* substring search are computed character by character.                  *)
(***************************************************************************)
EXTENDS Integers, Sequences, FiniteSets, TLC

VARIABLES now, fs, pc, url, downloaded_bytes, total_bytes, last_update,
          notes, tdir, nEvents, event, extCalls, result, propagated,
          cMsg, cOut, rDir, rOut

vars == <<now, fs, pc, url, downloaded_bytes, total_bytes, last_update,
          notes, tdir, nEvents, event, extCalls, result, propagated,
          cMsg, cOut, rDir, rOut>>

pipelineVars == <<now, fs, pc, url, downloaded_bytes, total_bytes, last_update,
                  notes, tdir, nEvents, event, extCalls, result, propagated>>

(***************************************************************************)
(* Bounds of the model.                                                    *)
(***************************************************************************)
\* The clock is read up to this many time units (one unit is 0.025 s).
MaxTime == 6
\* Largest byte count a progress event carries.
MaxBytes == 2
\* Progress events delivered to one session's hook (single-session runs).
MaxEvents == 2
\* Progress events delivered to each session's hook (two-session runs).
MaxSessionEvents == 1
\* The clock readings of the two-session runs.
MaxSessionTime == 3
\* Files the external tool leaves in one working directory (pipeline runs).
MaxFiles == 1
\* Entries of a directory handed to the output scan (resolver runs).
MaxListing == 2
\* Fragments an exception message is built from (classifier runs).
MaxFragments == 2

(***************************************************************************)
(* Program constants.                                                      *)
(***************************************************************************)
\* `now - last_update > 0.05`: 0.05 s is two units of 0.025 s.
ThrottleInterval == 2

\* an absent dictionary key, or Python's None, where an integer may stand
None == -1

(***************************************************************************)
(* Inputs the runs draw from.                                              *)
(***************************************************************************)
\* typed text the pattern accepts: "https://www.youtube.com/w" and " HTTP://youtu.be/x "
ValidUrls ==
    { <<"h", "t", "t", "p", "s", ":", "/", "/", "w", "w", "w", ".", "y", "o", "u", "t", "u", "b", "e", ".", "c", "o", "m", "/", "w">>,
      <<" ", "H", "T", "T", "P", ":", "/", "/", "y", "o", "u", "t", "u", ".", "b", "e", "/", "x", " ">> }

\* typed text the pattern rejects: another scheme, no slash after the host, text before
\* the scheme, a letter in place of a dot, another host, a doubled letter, a host suffix,
\* a single slash, no scheme, www. twice
InvalidUrls ==
    { <<"f", "t", "p", ":", "/", "/", "y", "o", "u", "t", "u", "b", "e", ".", "c", "o", "m", "/">>,
      <<"h", "t", "t", "p", "s", ":", "/", "/", "y", "o", "u", "t", "u", "b", "e", ".", "c", "o", "m">>,
      <<"x", " ", "h", "t", "t", "p", "s", ":", "/", "/", "y", "o", "u", "t", "u", ".", "b", "e", "/">>,
      <<"h", "t", "t", "p", "s", ":", "/", "/", "y", "o", "u", "t", "u", "b", "e", "X", "c", "o", "m", "/">>,
      <<"h", "t", "t", "p", "s", ":", "/", "/", "w", "w", "w", "X", "y", "o", "u", "t", "u", ".", "b", "e", "/">>,
      <<"h", "t", "t", "p", "s", ":", "/", "/", "e", "v", "i", "l", ".", "c", "o", "m", "/", "y", "o", "u", "t", "u", "b", "e", ".", "c", "o", "m", "/">>,
      <<"h", "t", "t", "p", "s", ":", "/", "/", "m", ".", "y", "o", "u", "t", "u", "b", "e", ".", "c", "o", "m", "/">>,
      <<"h", "t", "t", "p", "s", "s", ":", "/", "/", "y", "o", "u", "t", "u", ".", "b", "e", "/">>,
      <<"h", "t", "t", "p", "s", ":", "/", "/", "y", "o", "u", "t", "u", ".", "b", "e", ".", "e", "v", "i", "l", "/">>,
      <<"h", "t", "t", "p", ":", "/", "y", "o", "u", "t", "u", "b", "e", ".", "c", "o", "m", "/">>,
      <<"y", "o", "u", "t", "u", "b", "e", ".", "c", "o", "m", "/">>,
      <<"h", "t", "t", "p", "s", ":", "/", "/", "w", "w", "w", ".", "w", "w", "w", ".", "y", "o", "u", "t", "u", "b", "e", ".", "c", "o", "m", "/">> }

Urls == ValidUrls \cup InvalidUrls

\* the URL of the progress-monitor runs: "https://www.youtube.com/w"
MonitorUrls ==
    { <<"h", "t", "t", "p", "s", ":", "/", "/", "w", "w", "w", ".", "y", "o", "u", "t", "u", "b", "e", ".", "c", "o", "m", "/", "w">> }

\* the URLs of the two-session runs: "https://www.youtube.com/w", "https://youtube.com"
SessionUrls ==
    { <<"h", "t", "t", "p", "s", ":", "/", "/", "w", "w", "w", ".", "y", "o", "u", "t", "u", "b", "e", ".", "c", "o", "m", "/", "w">>,
      <<"h", "t", "t", "p", "s", ":", "/", "/", "y", "o", "u", "t", "u", "b", "e", ".", "c", "o", "m">> }

\* the file and the failure of the two-session runs
SessionFiles == { <<"a", ".", "m", "p", "3">> }

SessionRaised ==
    { <<"DownloadError", <<"E", "R", "R", "O", "R", ":", " ", "V", "i", "d", "e", "o", " ", "u", "n", "a", "v", "a", "i", "l", "a", "b", "l", "e">> >> }

\* pieces of message text: the four searched texts, an unrelated text, and pieces that
\* form or miss a searched text when joined
Fragments ==
    { <<"4", "0", "3">>,
      <<"F", "o", "r", "b", "i", "d", "d", "e", "n">>,
      <<"U", "n", "a", "b", "l", "e", " ", "t", "o", " ", "e", "x", "t", "r", "a", "c", "t">>,
      <<"V", "i", "d", "e", "o", " ", "u", "n", "a", "v", "a", "i", "l", "a", "b", "l", "e">>,
      <<"C", "o", "n", "n", "e", "c", "t", "i", "o", "n", " ", "r", "e", "s", "e", "t">>,
      <<"4", "0">>,
      <<"3">>,
      <<"f", "o", "r", "b", "i", "d", "d", "e", "n">>,
      <<"U", "n", "a", "b", "l", "e", " ", "t", "o">>,
      <<"e", "x", "t", "r", "a", "c", "t">>,
      <<" ">> }

\* names the output scan may meet
FileNames ==
    { <<"a", ".", "m", "p", "3">>,
      <<"b", ".", "m", "p", "3">>,
      <<"a", ".", "w", "e", "b", "m">>,
      <<"a", ".", "m", "4", "a">>,
      <<"a", ".", "o", "p", "u", "s">>,
      <<"a", ".", "o", "g", "g">>,
      <<"a", ".", "w", "a", "v">>,
      <<"a", ".", "a", "a", "c">>,
      <<"a", ".", "p", "a", "r", "t">>,
      <<"a", ".", "M", "P", "3">>,
      <<"m", "p", "3">>,
      <<"b", ".", "m", "p", "3", ".", "p", "a", "r", "t">> }

\* names the external tool writes in the pipeline runs
ToolFiles ==
    { <<"a", ".", "m", "p", "3">>,
      <<"a", ".", "w", "e", "b", "m">>,
      <<"a", ".", "p", "a", "r", "t">> }

\* names mkdtemp(prefix="ytmp3_") can return
DirNames == {"ytmp3_a", "ytmp3_b"}

\* the directory name of the progress-monitor runs
MonitorDir == "ytmp3_a"

Sessions == {1, 2}

Event(status, db, tb, tbe) ==
    [status |-> status, downloaded_bytes |-> db, total_bytes |-> tb,
     total_bytes_estimate |-> tbe]

\* the dictionaries yt-dlp passes to a progress hook
Events ==
    {Event("downloading", db, tb, tbe) :
        db \in {None} \cup 0..MaxBytes, tb \in {None, 0, MaxBytes}, tbe \in {None, 1}}
    \cup {Event("finished", MaxBytes, MaxBytes, None), Event("error", None, None, None)}

\* the events of the two-session runs
SessionEvents ==
    {Event("downloading", 1, MaxBytes, None), Event("finished", MaxBytes, MaxBytes, None)}

(***************************************************************************)
(* Text helpers: Python's str.strip, case folding of re.I for ASCII        *)
(* letters, the `in` substring test and pathlib's glob match.              *)
(***************************************************************************)
UpperCase == <<"A", "B", "C", "D", "E", "F", "G", "H", "I", "J", "K", "L", "M",
               "N", "O", "P", "Q", "R", "S", "T", "U", "V", "W", "X", "Y", "Z">>

LowerCase == <<"a", "b", "c", "d", "e", "f", "g", "h", "i", "j", "k", "l", "m",
               "n", "o", "p", "q", "r", "s", "t", "u", "v", "w", "x", "y", "z">>

Fold(c) ==
    IF \E i \in 1..26 : UpperCase[i] = c
    THEN LowerCase[CHOOSE i \in 1..26 : UpperCase[i] = c]
    ELSE c

IsSpace(c) == c \in {" ", "\t", "\n", "\r"}

RECURSIVE LStrip(_)
LStrip(s) == IF s # <<>> /\ IsSpace(Head(s)) THEN LStrip(Tail(s)) ELSE s

RECURSIVE RStrip(_)
RStrip(s) ==
    IF s # <<>> /\ IsSpace(s[Len(s)]) THEN RStrip(SubSeq(s, 1, Len(s) - 1)) ELSE s

\* str.strip()
Strip(s) == RStrip(LStrip(s))

\* `needle in hay`
Contains(needle, hay) ==
    \E i \in 1..(Len(hay) - Len(needle) + 1) :
        SubSeq(hay, i, i + Len(needle) - 1) = needle

\* fnmatch of one path component against a pattern whose only wildcard is "*"
RECURSIVE GlobMatch(_, _)
GlobMatch(pat, name) ==
    IF pat = <<>> THEN name = <<>>
    ELSE IF Head(pat) = "*"
         THEN \E k \in 0..Len(name) : GlobMatch(Tail(pat), SubSeq(name, k + 1, Len(name)))
         ELSE /\ name # <<>>
              /\ Head(name) = Head(pat)
              /\ GlobMatch(Tail(pat), Tail(name))

\* Path.glob(pattern): the entries of the listing that match, in listing order
Glob(listing, pat) == SelectSeq(listing, LAMBDA f : GlobMatch(pat, f))

(***************************************************************************)
(* URL validation: re.match(r"^https?://(www\.)?(youtube\.com|youtu\.be)/",*)
(* url.strip(), flags=re.I).  The pattern is run as a position-set         *)
(* automaton over the text.                                                *)
(***************************************************************************)
LitHttp == <<"h", "t", "t", "p">>
LitS == <<"s">>
LitColonSlashes == <<":", "/", "/">>
LitWww == <<"w", "w", "w", ".">>
LitYoutubeCom == <<"y", "o", "u", "t", "u", "b", "e", ".", "c", "o", "m">>
LitYoutuBe == <<"y", "o", "u", "t", "u", ".", "b", "e">>
LitSlash == <<"/">>

\* a pattern in which "." is left unescaped: it matches any character
LitAtUnescapedDot(s, i, lit) ==
    /\ i + Len(lit) - 1 <= Len(s)
    /\ \A j \in 1..Len(lit) : lit[j] = "." \/ Fold(s[i + j - 1]) = Fold(lit[j])

\* the literal matches the text at position i, ignoring case
LitAt(s, i, lit) ==
    /\ i + Len(lit) - 1 <= Len(s)
    /\ \A j \in 1..Len(lit) : Fold(s[i + j - 1]) = Fold(lit[j])

\* positions reached from the positions P by consuming the literal
After(s, P, lit) == {i + Len(lit) : i \in {p \in P : LitAt(s, p, lit)}}

\* positions reached by consuming the literal zero or one time
Optional(s, P, lit) == P \cup After(s, P, lit)

ReMatch(u) ==
    LET s  == Strip(u)
        p0 == {1}
        p1 == After(s, p0, LitHttp)
        p2 == Optional(s, p1, LitS)
        p3 == After(s, p2, LitColonSlashes)
        p4 == Optional(s, p3, LitWww)
        p5 == After(s, p4, LitYoutubeCom) \cup After(s, p4, LitYoutuBe)
        p6 == After(s, p5, LitSlash)
    IN  p6 # {}

(***************************************************************************)
(* Error classification: the `except Exception as e` branch of main.       *)
(***************************************************************************)
Needle403 == <<"4", "0", "3">>
NeedleForbidden == <<"F", "o", "r", "b", "i", "d", "d", "e", "n">>
NeedleUnableToExtract ==
    <<"U", "n", "a", "b", "l", "e", " ", "t", "o", " ", "e", "x", "t", "r", "a", "c", "t">>
NeedleVideoUnavailable ==
    <<"V", "i", "d", "e", "o", " ", "u", "n", "a", "v", "a", "i", "l", "a", "b", "l", "e">>

Failure(category, message, files) ==
    [kind |-> "Failure", category |-> category, message |-> message, files |-> files]

Success(file) ==
    [kind |-> "Success", category |-> "none", message |-> <<>>, files |-> <<file>>]

NoResult == [kind |-> "None", category |-> "none", message |-> <<>>, files |-> <<>>]

\* the extraction test placed before the access test
ClassifyExtractionFirst(error_msg) ==
    IF Contains(NeedleUnableToExtract, error_msg) \/ Contains(NeedleVideoUnavailable, error_msg)
    THEN Failure("extraction_failed", error_msg, <<>>)
    ELSE IF Contains(Needle403, error_msg) \/ Contains(NeedleForbidden, error_msg)
         THEN Failure("access_restricted", <<>>, <<>>)
         ELSE Failure("unknown", error_msg, <<>>)

\* the st.error shown for str(e); the access text does not quote the message
Classify(error_msg) ==
    IF Contains(Needle403, error_msg) \/ Contains(NeedleForbidden, error_msg)
    THEN Failure("access_restricted", <<>>, <<>>)
    ELSE IF Contains(NeedleUnableToExtract, error_msg) \/ Contains(NeedleVideoUnavailable, error_msg)
         THEN Failure("extraction_failed", error_msg, <<>>)
         ELSE Failure("unknown", error_msg, <<>>)

\* `except Exception` catches every class derived from Exception
ExceptionClasses == {"DownloadError", "ValueError"}

CatchesDownloadErrorOnly(cls) == cls = "DownloadError"

Catches(cls) == cls \in ExceptionClasses

(***************************************************************************)
(* Output resolution: the scan of the temporary directory after the call.  *)
(***************************************************************************)
GlobMp3 == <<"*", ".", "m", "p", "3">>
GlobM4a == <<"*", ".", "m", "4", "a">>
GlobWebm == <<"*", ".", "w", "e", "b", "m">>
GlobOpus == <<"*", ".", "o", "p", "u", "s">>
GlobOgg == <<"*", ".", "o", "g", "g">>
GlobWav == <<"*", ".", "w", "a", "v">>
GlobAac == <<"*", ".", "a", "a", "c">>

\* for ext in ["*.m4a", "*.webm", "*.opus", "*.ogg", "*.wav", "*.aac"]
AudioPatterns == <<GlobM4a, GlobWebm, GlobOpus, GlobOgg, GlobWav, GlobAac>>

\* audio_files.extend(tdir.glob(ext)) for the patterns from index i on
RECURSIVE AudioFiles(_, _)
AudioFiles(listing, i) ==
    IF i > Len(AudioPatterns) THEN <<>>
    ELSE Glob(listing, AudioPatterns[i]) \o AudioFiles(listing, i + 1)

PickLast(mp3_files) == mp3_files[Len(mp3_files)]

\* mp3_files[0]
PickFirst(mp3_files) == mp3_files[1]

Exists(listing, path) == \E i \in 1..Len(listing) : listing[i] = path

Resolve(listing) ==
    LET mp3_files == Glob(listing, GlobMp3)
        audio_files == AudioFiles(listing, 1)
    IN  IF mp3_files # <<>>
        THEN IF ~Exists(listing, PickFirst(mp3_files))
             THEN Failure("not_located", <<>>, <<>>)
             ELSE Success(PickFirst(mp3_files))
        ELSE IF audio_files # <<>>
             THEN Failure("conversion_failed", <<>>, audio_files)
             ELSE Failure("no_output", <<>>, <<>>)

(***************************************************************************)
(* Progress monitor: the closure `hook` over downloaded_bytes, total_bytes *)
(* and last_update.                                                        *)
(***************************************************************************)
\* Python truthiness of an optional integer
Truthy(x) == x # None /\ x # 0

\* `a or b`
PyOr(a, b) == IF Truthy(a) THEN a ELSE b

ShouldEmitAtInterval(t, last) == t - last >= ThrottleInterval

\* `now - last_update > 0.05`
ShouldEmit(t, last) == t - last > ThrottleInterval

DivError == <<0, 0>>

\* downloaded_bytes / total_bytes as a fraction <<numerator, denominator>>
Ratio(d, t) == IF t = 0 THEN DivError ELSE <<d, t>>

Min1Unclamped(q) == q

\* min(1.0, q)
Min1(q) == IF q[1] > q[2] THEN <<1, 1>> ELSE q

Note(text, value, bytes, total, t) ==
    [text |-> text, value |-> value, bytes |-> bytes, total |-> total, at |-> t]

\* the p.progress call of a downloading event
DownloadingNote(db, tb, t) ==
    IF Truthy(tb)
    THEN Note("Downloading", Min1(Ratio(db, tb)), db, tb, t)
    ELSE Note("Downloading", <<0, 1>>, db, None, t)

FinishedNotesThrottled(st, t) ==
    IF ShouldEmit(t, st.last_update)
    THEN <<Note("Converting", <<1, 1>>, None, None, t)>>
    ELSE <<>>

\* p.progress(1.0, text="Download complete. Converting to MP3...")
FinishedNotes(st, t) == <<Note("Converting", <<1, 1>>, None, None, t)>>

ProgressState(db, tb, lu) ==
    [downloaded_bytes |-> db, total_bytes |-> tb, last_update |-> lu]

\* one call of hook(d) at clock reading t: the new state and the notifications
hook(st, d, t) ==
    IF d.status = "downloading"
    THEN LET db == PyOr(d.downloaded_bytes, st.downloaded_bytes)
             tb == PyOr(PyOr(d.total_bytes, d.total_bytes_estimate), st.total_bytes)
         IN  IF ShouldEmit(t, st.last_update)
             THEN [st |-> ProgressState(db, tb, t), emit |-> <<DownloadingNote(db, tb, t)>>]
             ELSE [st |-> ProgressState(db, tb, st.last_update), emit |-> <<>>]
    ELSE IF d.status = "finished"
         THEN [st |-> st, emit |-> FinishedNotes(st, t)]
         ELSE [st |-> st, emit |-> <<>>]

(***************************************************************************)
(* The page run main(), one per session, and the external call it blocks   *)
(* in.  fs is the file system under the temporary-directory root; notes is *)
(* what each session's progress bar was told; event is the dictionary of   *)
(* the session's latest hook call and nEvents the number of calls; pc is   *)
(* where main() is: "idle" before the button press, "stopped" after the    *)
(* URL test failed, "extracting" inside y.extract_info, "raised" after     *)
(* the call raised and "returned" after it returned, the run over;         *)
(* propagated is the exception that left main().                           *)
(***************************************************************************)
NoDir == [exists |-> FALSE, files |-> <<>>]

EmptyDir == [exists |-> TRUE, files |-> <<>>]

AnyName(fsys) == DirNames

\* mkdtemp tries names until one does not exist
FreeNames(fsys) == {d \in DirNames : ~fsys[d].exists}

ExitScopeOnReturnOnly(fsys, d, exc) ==
    IF exc = "none" THEN [fsys EXCEPT ![d] = NoDir] ELSE fsys

\* TemporaryDirectory.__exit__: the tree is removed whatever leaves the block
ExitScope(fsys, d, exc) == [fsys EXCEPT ![d] = NoDir]

InitPipeline ==
    /\ now = 0
    /\ fs = [d \in DirNames |-> NoDir]
    /\ pc = [r \in Sessions |-> "idle"]
    /\ url = [r \in Sessions |-> <<>>]
    /\ downloaded_bytes = [r \in Sessions |-> 0]
    /\ total_bytes = [r \in Sessions |-> None]
    /\ last_update = [r \in Sessions |-> 0]
    /\ notes = [r \in Sessions |-> <<>>]
    /\ tdir = [r \in Sessions |-> "unset"]
    /\ nEvents = [r \in Sessions |-> 0]
    /\ event = [r \in Sessions |-> Event("none", None, None, None)]
    /\ extCalls = [r \in Sessions |-> 0]
    /\ result = [r \in Sessions |-> NoResult]
    /\ propagated = [r \in Sessions |-> "none"]

Init ==
    /\ InitPipeline
    /\ cMsg = <<>>
    /\ cOut = NoResult
    /\ rDir = <<>>
    /\ rOut = NoResult

\* time.time() moves on, up to the reading limit
Tick(limit) ==
    /\ now < limit
    /\ now' = now + 1
    /\ UNCHANGED <<fs, pc, url, downloaded_bytes, total_bytes, last_update, notes,
                   tdir, nEvents, event, extCalls, result, propagated, cMsg, cOut, rDir, rOut>>

\* main() from the button press to the entry of y.extract_info: the URL test,
\* the progress bar, the closure's variables, the temporary directory (named
\* name, the random name mkdtemp settles on)
Start(r, u, name) ==
    /\ pc[r] = "idle"
    /\ Strip(u) # <<>>
    /\ url' = [url EXCEPT ![r] = u]
    /\ IF ~ReMatch(u)
       THEN /\ result' = [result EXCEPT ![r] = Failure("invalid_request", <<>>, <<>>)]
            /\ propagated' = [propagated EXCEPT ![r] = "StopException"]
            /\ pc' = [pc EXCEPT ![r] = "stopped"]
            /\ UNCHANGED <<fs, downloaded_bytes, total_bytes, last_update, notes,
                           tdir, extCalls>>
       ELSE /\ notes' = [notes EXCEPT ![r] = <<Note("Preparing", <<0, 1>>, None, None, now)>>]
            /\ downloaded_bytes' = [downloaded_bytes EXCEPT ![r] = 0]
            /\ total_bytes' = [total_bytes EXCEPT ![r] = None]
            /\ last_update' = [last_update EXCEPT ![r] = now]
            /\ name \in FreeNames(fs)
            /\ fs' = [fs EXCEPT ![name] = EmptyDir]
            /\ tdir' = [tdir EXCEPT ![r] = name]
            /\ extCalls' = [extCalls EXCEPT ![r] = @ + 1]
            /\ pc' = [pc EXCEPT ![r] = "extracting"]
            /\ UNCHANGED <<result, propagated>>
    /\ UNCHANGED <<now, nEvents, event, cMsg, cOut, rDir, rOut>>

\* the external tool calls the progress hook with the dictionary d, up to
\* limit calls for the session
Hook(r, d, limit) ==
    /\ pc[r] = "extracting"
    /\ nEvents[r] < limit
    /\ LET out == hook(ProgressState(downloaded_bytes[r], total_bytes[r], last_update[r]),
                       d, now)
       IN  /\ downloaded_bytes' = [downloaded_bytes EXCEPT ![r] = out.st.downloaded_bytes]
           /\ total_bytes' = [total_bytes EXCEPT ![r] = out.st.total_bytes]
           /\ last_update' = [last_update EXCEPT ![r] = out.st.last_update]
           /\ notes' = [notes EXCEPT ![r] = @ \o out.emit]
    /\ nEvents' = [nEvents EXCEPT ![r] = @ + 1]
    /\ event' = [event EXCEPT ![r] = d]
    /\ UNCHANGED <<now, fs, pc, url, tdir, extCalls, result, propagated,
                   cMsg, cOut, rDir, rOut>>

\* the external tool leaves a file under the output template's directory
ToolWritesFile(r, f) ==
    /\ pc[r] = "extracting"
    /\ Len(fs[tdir[r]].files) < MaxFiles
    /\ ~Exists(fs[tdir[r]].files, f)
    /\ fs' = [fs EXCEPT ![tdir[r]].files = Append(@, f)]
    /\ UNCHANGED <<now, pc, url, downloaded_bytes, total_bytes, last_update, notes,
                   tdir, nEvents, event, extCalls, result, propagated, cMsg, cOut, rDir, rOut>>

\* the call raises an exception of class cls whose str() is msg: the except
\* branch, st.stop(), and the exit of the with block
ExtractRaises(r, cls, msg) ==
    /\ pc[r] = "extracting"
    /\ IF Catches(cls)
       THEN /\ result' = [result EXCEPT ![r] = Classify(msg)]
            /\ propagated' = [propagated EXCEPT ![r] = "StopException"]
            /\ fs' = ExitScope(fs, tdir[r], "StopException")
       ELSE /\ propagated' = [propagated EXCEPT ![r] = cls]
            /\ fs' = ExitScope(fs, tdir[r], cls)
            /\ UNCHANGED result
    /\ pc' = [pc EXCEPT ![r] = "raised"]
    /\ UNCHANGED <<now, url, downloaded_bytes, total_bytes, last_update, notes,
                   tdir, nEvents, event, extCalls, cMsg, cOut, rDir, rOut>>

\* the call returns: the scan of the directory, the read of the file, the
\* download button, and the exit of the with block
ExtractReturns(r, readable) ==
    /\ pc[r] = "extracting"
    /\ LET res == Resolve(fs[tdir[r]].files)
       IN  IF res.kind # "Success"
           THEN /\ result' = [result EXCEPT ![r] = res]
                /\ propagated' = [propagated EXCEPT ![r] = "StopException"]
                /\ fs' = ExitScope(fs, tdir[r], "StopException")
                /\ UNCHANGED notes
           ELSE IF ~readable
                THEN /\ propagated' = [propagated EXCEPT ![r] = "OSError"]
                     /\ fs' = ExitScope(fs, tdir[r], "OSError")
                     /\ UNCHANGED <<result, notes>>
                ELSE /\ result' = [result EXCEPT ![r] = res]
                     /\ notes' = [notes EXCEPT ![r] =
                                     Append(@, Note("Ready", <<1, 1>>, None, None, now))]
                     /\ fs' = ExitScope(fs, tdir[r], "none")
                     /\ UNCHANGED propagated
    /\ pc' = [pc EXCEPT ![r] = "returned"]
    /\ UNCHANGED <<now, url, downloaded_bytes, total_bytes, last_update,
                   tdir, nEvents, event, extCalls, cMsg, cOut, rDir, rOut>>

\* the failures the pipeline runs raise: a class and the text of str(e)
Raised ==
    { <<"DownloadError", <<"H", "T", "T", "P", " ", "E", "r", "r", "o", "r", " ", "4", "0", "3", ":", " ", "F", "o", "r", "b", "i", "d", "d", "e", "n">> >>,
      <<"DownloadError", <<"E", "R", "R", "O", "R", ":", " ", "V", "i", "d", "e", "o", " ", "u", "n", "a", "v", "a", "i", "l", "a", "b", "l", "e">> >>,
      <<"ValueError", <<"C", "o", "n", "n", "e", "c", "t", "i", "o", "n", " ", "r", "e", "s", "e", "t">> >> }

\* One session from the button press to the end of the run: every URL, the
\* tool's files and failures, and up to MaxSessionEvents hook calls.
Next ==
    \/ Tick(MaxTime)
    \/ \E u \in Urls, name \in DirNames : Start(1, u, name)
    \/ \E d \in SessionEvents : Hook(1, d, MaxSessionEvents)
    \/ \E f \in ToolFiles : ToolWritesFile(1, f)
    \/ \E e \in Raised : ExtractRaises(1, e[1], e[2])
    \/ \E readable \in BOOLEAN : ExtractReturns(1, readable)

Spec == Init /\ [][Next]_vars

\* The progress monitor of one session while the external call runs: every
\* event dictionary at every clock reading, up to MaxEvents hook calls.
NextMonitor ==
    \/ Tick(MaxTime)
    \/ \E u \in MonitorUrls : Start(1, u, MonitorDir)
    \/ \E d \in Events : Hook(1, d, MaxEvents)

SpecMonitor == Init /\ [][NextMonitor]_vars

\* Two sessions running main() at once, their steps interleaved.
NextSessions ==
    \/ Tick(MaxSessionTime)
    \/ \E r \in Sessions, u \in SessionUrls, name \in DirNames : Start(r, u, name)
    \/ \E r \in Sessions, d \in SessionEvents : Hook(r, d, MaxSessionEvents)
    \/ \E r \in Sessions, f \in SessionFiles : ToolWritesFile(r, f)
    \/ \E r \in Sessions, e \in SessionRaised : ExtractRaises(r, e[1], e[2])
    \/ \E r \in Sessions : ExtractReturns(r, TRUE)

SpecSessions == Init /\ [][NextSessions]_vars

(***************************************************************************)
(* The classifier and the output scan on their own, over wider inputs.     *)
(***************************************************************************)
RECURSIVE Join(_)
Join(parts) == IF parts = <<>> THEN <<>> ELSE Head(parts) \o Join(Tail(parts))

\* message texts: up to MaxFragments fragments joined
Messages == UNION {{Join(q) : q \in [1..k -> Fragments]} : k \in 0..MaxFragments}

\* directory listings: up to MaxListing distinct names in any order
Listings ==
    UNION {{q \in [1..k -> FileNames] : \A i, j \in 1..k : i # j => q[i] # q[j]} :
              k \in 0..MaxListing}

InitClassify ==
    /\ InitPipeline
    /\ cMsg \in Messages
    /\ cOut = NoResult
    /\ rDir = <<>>
    /\ rOut = NoResult

\* the except branch applied to str(e) = cMsg
ClassifyMessage ==
    /\ cOut = NoResult
    /\ cOut' = Classify(cMsg)
    /\ UNCHANGED <<cMsg, rDir, rOut>>
    /\ UNCHANGED pipelineVars

SpecClassify == InitClassify /\ [][ClassifyMessage]_vars

InitResolve ==
    /\ InitPipeline
    /\ cMsg = <<>>
    /\ cOut = NoResult
    /\ rDir \in Listings
    /\ rOut = NoResult

\* the output scan applied to a directory that lists rDir
ResolveListing ==
    /\ rOut = NoResult
    /\ rOut' = Resolve(rDir)
    /\ UNCHANGED <<cMsg, cOut, rDir>>
    /\ UNCHANGED pipelineVars

SpecResolve == InitResolve /\ [][ResolveListing]_vars

(***************************************************************************)
(* Properties.                                                             *)
(***************************************************************************)
\* the eight lower-case texts the accepted host pattern spells out
AcceptedPrefixes ==
    { <<"h", "t", "t", "p", ":", "/", "/", "y", "o", "u", "t", "u", "b", "e", ".", "c", "o", "m", "/">>,
      <<"h", "t", "t", "p", ":", "/", "/", "y", "o", "u", "t", "u", ".", "b", "e", "/">>,
      <<"h", "t", "t", "p", ":", "/", "/", "w", "w", "w", ".", "y", "o", "u", "t", "u", "b", "e", ".", "c", "o", "m", "/">>,
      <<"h", "t", "t", "p", ":", "/", "/", "w", "w", "w", ".", "y", "o", "u", "t", "u", ".", "b", "e", "/">>,
      <<"h", "t", "t", "p", "s", ":", "/", "/", "y", "o", "u", "t", "u", "b", "e", ".", "c", "o", "m", "/">>,
      <<"h", "t", "t", "p", "s", ":", "/", "/", "y", "o", "u", "t", "u", ".", "b", "e", "/">>,
      <<"h", "t", "t", "p", "s", ":", "/", "/", "w", "w", "w", ".", "y", "o", "u", "t", "u", "b", "e", ".", "c", "o", "m", "/">>,
      <<"h", "t", "t", "p", "s", ":", "/", "/", "w", "w", "w", ".", "y", "o", "u", "t", "u", ".", "b", "e", "/">> }

\* the stripped text starts, whatever the case of its letters, with one of them
Accepted(u) ==
    \E p \in AcceptedPrefixes :
        /\ Len(p) <= Len(Strip(u))
        /\ \A i \in 1..Len(p) : Fold(Strip(u)[i]) = p[i]

Ended(r) == pc[r] \in {"raised", "returned"}

\* C1: a submitted URL that the accepted host pattern does not match ends the
\* run with the validation error, and the external call is never made for it
\* (nor a working directory created).
C1_InvalidUrlNeverExtracts ==
    \A r \in Sessions :
        (pc[r] # "idle" /\ ~Accepted(url[r])) =>
            /\ pc[r] = "stopped"
            /\ result[r] = Failure("invalid_request", <<>>, <<>>)
            /\ extCalls[r] = 0
            /\ tdir[r] = "unset"

\* a URL with a letter where the pattern wants the dot of the host was refused
C1_Witness ==
    /\ pc[1] = "stopped"
    /\ ~Accepted(url[1])
    /\ Contains(<<"X", "c", "o", "m">>, url[1])
    /\ extCalls[1] = 0

\* C2: when the run of a request that passed validation has ended, by any
\* path (success, classified failure, conversion-failed or no-output stop,
\* unclassified exception), its working directory no longer exists.
C2_WorkdirDeleted ==
    \A r \in Sessions : Ended(r) => ~fs[tdir[r]].exists

\* the run ended by an unclassified exception of the read of the file
C2_Witness ==
    /\ pc[1] = "returned"
    /\ propagated[1] = "OSError"
    /\ fs[tdir[1]] = NoDir

C3_Caught ==
    \A r \in Sessions :
        pc[r] = "raised" =>
            /\ result[r].kind = "Failure"
            /\ result[r].category \in {"access_restricted", "extraction_failed", "unknown"}
            /\ propagated[r] = "StopException"
            /\ \A k \in 1..Len(notes[r]) : notes[r][k].text # "Ready"

C3_FailureStays ==
    \A r \in Sessions : result[r].kind = "Failure" => result'[r] = result[r]

\* C3: every failure the external call raises (its own or one raised in the
\* progress hook while it runs) ends as a Failure result with a category, the
\* raw exception does not leave the run, and once a Failure is the result no
\* Success replaces it.
C3_ExternalFailureBecomesFailure == [](C3_Caught) /\ [][C3_FailureStays]_vars

\* a failure that is no DownloadError was raised and classified unknown
C3_Witness ==
    /\ pc[1] = "raised"
    /\ result[1].category = "unknown"
    /\ propagated[1] = "StopException"

\* what the progress monitor told the bar, in order
MonitorNotes(r) ==
    SelectSeq(notes[r], LAMBDA n : n.text \in {"Downloading", "Converting"})

\* the downloading notifications after the bar's first text, in order
WindowNotes(r) ==
    SelectSeq(notes[r], LAMBDA n : n.text \in {"Preparing", "Downloading"})

\* C4 as claimed: any two consecutive notifications of the monitor are more
\* than the throttle interval apart unless the later one is the terminal one.
C4_AsClaimed ==
    \A r \in Sessions :
        \A k \in 2..Len(MonitorNotes(r)) :
            MonitorNotes(r)[k].text # "Converting" =>
                MonitorNotes(r)[k].at - MonitorNotes(r)[k - 1].at > ThrottleInterval

\* C4 as amended: a downloading notification is more than the throttle interval
\* after the previous downloading notification (after the creation of the
\* progress state when there is none before it); the terminal notification is
\* unconditional and does not restart the window.
C4_DownloadingNotesThrottled ==
    \A r \in Sessions :
        \A k \in 2..Len(WindowNotes(r)) :
            WindowNotes(r)[k].at - WindowNotes(r)[k - 1].at > ThrottleInterval

\* two downloading notifications were emitted in one run
C4_Witness ==
    /\ Len(WindowNotes(1)) = 3
    /\ WindowNotes(1)[3].at - WindowNotes(1)[2].at > ThrottleInterval

HookCalled(r) == nEvents'[r] = nEvents[r] + 1

\* C5: every `finished` event adds exactly one notification, the terminal one
\* (100%, the converting text), whatever the clock and the progress state.
C5_FinishedAlwaysNotifies ==
    [][\A r \in Sessions :
          (HookCalled(r) /\ event'[r].status = "finished") =>
              notes'[r] = Append(notes[r], Note("Converting", <<1, 1>>, None, None, now))]_vars

\* a finished event handled inside the throttle window of the last update
C5_Witness ==
    /\ event[1].status = "finished"
    /\ notes[1][Len(notes[1])].text = "Converting"
    /\ notes[1][Len(notes[1])].at - last_update[1] <= ThrottleInterval
    /\ Len(notes[1]) = 3

\* the names of a listing that end with the extension
EndsWith(name, ext) ==
    /\ Len(ext) <= Len(name)
    /\ \A i \in 1..Len(ext) : name[Len(name) - Len(ext) + i] = ext[i]

Mp3Ext == <<".", "m", "p", "3">>

AudioExts ==
    { <<".", "m", "4", "a">>, <<".", "w", "e", "b", "m">>, <<".", "o", "p", "u", "s">>,
      <<".", "o", "g", "g">>, <<".", "w", "a", "v">>, <<".", "a", "a", "c">> }

Mp3At(listing) == {i \in 1..Len(listing) : EndsWith(listing[i], Mp3Ext)}

AudioAt(listing) ==
    {i \in 1..Len(listing) : \E e \in AudioExts : EndsWith(listing[i], e)}

\* C6: the scan's result is decided by the listing alone: Success with the
\* first listed *.mp3 if there is one; else Failure(conversion_failed) naming
\* exactly the files of the six audio extensions if there is one; else
\* Failure(no_output).
C6_ResolveByListing ==
    rOut # NoResult =>
        IF Mp3At(rDir) # {}
        THEN rOut = Success(rDir[CHOOSE i \in Mp3At(rDir) : \A j \in Mp3At(rDir) : i <= j])
        ELSE IF AudioAt(rDir) # {}
             THEN /\ rOut.kind = "Failure"
                  /\ rOut.category = "conversion_failed"
                  /\ {rOut.files[k] : k \in 1..Len(rOut.files)} = {rDir[i] : i \in AudioAt(rDir)}
                  /\ Len(rOut.files) = Cardinality(AudioAt(rDir))
             ELSE rOut = Failure("no_output", <<>>, <<>>)

\* two *.mp3 files were listed and the first was taken
C6_Witness ==
    /\ rOut.kind = "Success"
    /\ Cardinality(Mp3At(rDir)) = 2
    /\ rOut.files = <<rDir[1]>>

\* the text occurs in the message at some offset
Occurs(text, msg) ==
    \E off \in 0..(Len(msg) - Len(text)) : \A j \in 1..Len(text) : msg[off + j] = text[j]

\* C7: every message gets exactly one category, the first that applies:
\* access_restricted if it holds "403" or "Forbidden"; else extraction_failed
\* if it holds "Unable to extract" or "Video unavailable"; else unknown with
\* the message passed through.
C7_ClassifyFirstMatch ==
    cOut # NoResult =>
        /\ cOut.kind = "Failure"
        /\ IF Occurs(Needle403, cMsg) \/ Occurs(NeedleForbidden, cMsg)
           THEN cOut.category = "access_restricted"
           ELSE IF Occurs(NeedleUnableToExtract, cMsg) \/ Occurs(NeedleVideoUnavailable, cMsg)
                THEN cOut.category = "extraction_failed" /\ cOut.message = cMsg
                ELSE cOut.category = "unknown" /\ cOut.message = cMsg

\* a message that holds both an access text and an extraction text
C7_Witness ==
    /\ cOut.category = "access_restricted"
    /\ Occurs(NeedleVideoUnavailable, cMsg)
    /\ Occurs(Needle403, cMsg)

\* what belongs to one session: where its run is, its closure variables, its
\* bar, its result, and its working directory while it holds one
SessionState(r) ==
    <<pc[r], url[r], downloaded_bytes[r], total_bytes[r], last_update[r], notes[r],
      tdir[r], nEvents[r], event[r], extCalls[r], result[r], propagated[r],
      IF pc[r] = "extracting" THEN fs[tdir[r]] ELSE NoDir>>

C8_OwnDirectory ==
    \A r, q \in Sessions :
        (r # q /\ pc[r] = "extracting" /\ pc[q] = "extracting") => tdir[r] # tdir[q]

C8_OneSessionPerStep ==
    \A r, q \in Sessions :
        (r # q /\ SessionState(r)' # SessionState(r)) => SessionState(q)' = SessionState(q)

\* C8: sessions that run at once hold different working directories, and a
\* step of one session (a progress event, a file, the end of its run and its
\* cleanup) leaves the other session's progress state, working directory and
\* result as they were.
C8_SessionsIndependent == [](C8_OwnDirectory) /\ [][C8_OneSessionPerStep]_vars

\* one session's run ended and cleaned up while the other still extracts with
\* its directory and file in place
C8_Witness ==
    /\ pc[1] = "extracting"
    /\ Ended(2)
    /\ tdir[2] # "unset"
    /\ fs[tdir[1]].files # <<>>
    /\ nEvents[1] = 1

\* C9 as claimed: after a downloading event that carries downloaded_bytes = n,
\* the progress state's downloaded_bytes is n.
C9_AsClaimed ==
    \A r \in Sessions :
        (event[r].status = "downloading" /\ event[r].downloaded_bytes # None) =>
            downloaded_bytes[r] = event[r].downloaded_bytes

\* the fraction <<a, b>> is min(1, d / t)
IsMin1Ratio(v, d, t) ==
    /\ v[2] > 0
    /\ IF d >= t THEN v[1] = v[2] ELSE v[1] * t = v[2] * d

C10_InRange ==
    \A r \in Sessions :
        \A k \in 1..Len(notes[r]) :
            notes[r][k].text = "Downloading" =>
                /\ notes[r][k].value # DivError
                /\ 0 <= notes[r][k].value[1]
                /\ notes[r][k].value[1] <= notes[r][k].value[2]
                /\ IF notes[r][k].total = None
                   THEN notes[r][k].value = <<0, 1>>
                   ELSE IsMin1Ratio(notes[r][k].value, notes[r][k].bytes, notes[r][k].total)

C10_OfCurrentState ==
    \A r \in Sessions :
        (HookCalled(r) /\ Len(notes'[r]) = Len(notes[r]) + 1
                       /\ event'[r].status = "downloading") =>
            /\ notes'[r][Len(notes'[r])].bytes = downloaded_bytes'[r]
            /\ notes'[r][Len(notes'[r])].total = total_bytes'[r]

\* C10: the value of every downloading notification lies in [0, 1]: it is
\* min(1, downloaded/total) of the progress state at that moment when the total
\* is known and 0 with the byte count alone when it is not; no division by zero.
C10_ProgressValueInRange == [](C10_InRange) /\ [][C10_OfCurrentState]_vars

\* a notification made when more bytes were downloaded than the total
C10_Witness ==
    \E k \in 1..Len(notes[1]) :
        /\ notes[1][k].text = "Downloading"
        /\ notes[1][k].total # None
        /\ notes[1][k].bytes > notes[1][k].total
        /\ notes[1][k].value = <<1, 1>>

====
